---- MODULE Spec2Model ----
(***************************************************************************)
(* fn2::Function<int(int)>: a type-erased callable wrapper with small      *)
(* buffer optimisation (include/fn2/fn2.h, include/fn2/detail.h).          *)
(*                                                                         *)
(* The model keeps, for every Function object of a small client program,   *)
(* its three members (vptr_, is_ptr_, storage_), the free store, and the   *)
(* lifetime of every wrapped object.  Each public member function is one   *)
(* action, built from the vtable entries exactly in the order the code     *)
(* calls them.  Precondition violations of a step (a destructor run on a   *)
(* slot without a live object, as_ptr() with is_ptr_ false, a block        *)
(* released by the wrong deallocator, ...) are recorded in err.            *)
(***************************************************************************)
EXTENDS Integers, Sequences, FiniteSets, TLC

(***************************************************************************)
(* Bounds of the exploration.                                              *)
(***************************************************************************)
\* number of addresses the free store can hand out
MaxHeap == 2
\* call arguments range over 1..MaxArg
MaxArg == 2
\* period of the generator captured by the mutable lambda
GenPeriod == 2

(***************************************************************************)
(* Platform constants of Function::Storage.                                *)
(***************************************************************************)
SizeofFloat == 4
SizeofBool == 1
SizeofPtr == 8
\* default alignment of std::aligned_storage_t
StorageAlign == 16
\* the Len argument of aligned_storage_t
StorageLen == 16 * SizeofFloat - SizeofBool - SizeofPtr
\* sizeof(Storage): Len rounded up to the alignment
SizeofStorage == ((StorageLen + StorageAlign - 1) \div StorageAlign) * StorageAlign

(***************************************************************************)
(* The client program: two Function<int(int)> variables and the            *)
(* callable types it wraps.                                                *)
(***************************************************************************)
Fns == {"f", "g"}
\* the local Function of operator=(const Function&), operator=(F&&), emplace
Local == "local"
\* swap's local `Storage temp` and the vtable swap's local `F temp`
Temp == "temp"
VTemp == "vtemp"
Slots == Fns \cup {Local, Temp, VTemp}
FnIds == Fns \cup {Local}

NULL == "nullptr"
Types == {"FnPtr", "Adder", "Multiplier", "RandMin", "Big"}

\* get_vtbl<F, R, As...>() is a static function template, so every
\* translation unit that wraps an F has a table of its own in the function's
\* static local vtbl.  A table pointer is written as the name of its type F
\* for the table of the translation unit of the client above, and as
\* Vtbl2(F) for the table of a second translation unit, which wraps the
\* types Unit2Types.
Unit2Types == {"FnPtr"}
Vtbl2(F) == F \o "@second"
Tables == Types \cup {Vtbl2(F) : F \in Unit2Types}
\* the type F whose operations the entries of table T perform
TypeOf(T) ==
  IF \E F \in Unit2Types : Vtbl2(F) = T
    THEN CHOOSE F \in Unit2Types : Vtbl2(F) = T
    ELSE T

\* the two functions a function pointer can point at
Times2 == 1
Div2 == 2

SizeOf ==
  [T \in Types |->
     CASE T = "FnPtr" -> SizeofPtr
       [] T = "Adder" -> 4
       [] T = "Multiplier" -> 24
       [] T = "RandMin" -> 5000
       [] T = "Big" -> 128]

AlignOf ==
  [T \in Types |->
     CASE T = "FnPtr" -> SizeofPtr
       [] T = "Adder" -> 4
       [] T = "Multiplier" -> 8
       [] T = "RandMin" -> 8
       [] T = "Big" -> 8]

\* std::is_nothrow_swappable_v<F>: closure types have no assignment operator
NothrowSwappable(T) == TypeOf(T) \in {"FnPtr", "Multiplier"}

\* types whose constructors (from arguments, or copy) can throw
CtorMayThrow(T) == TypeOf(T) \in {"Multiplier", "Big"}

\* the values an object of type T can be given; a value is the tuple of the
\* object's members
Values(T) ==
  LET F == TypeOf(T)
  IN  CASE F = "FnPtr" -> {<<Times2>>, <<Div2>>}
        [] F = "Adder" -> {<<5>>, <<-5>>}
        [] F = "Multiplier" -> {<<2>>, <<2, 3>>}
        [] F = "RandMin" -> {<<0>>}
        [] F = "Big" -> {<<3>>}

\* the types the client constructs in place, and the constructor argument
\* lists it passes with in_place_type / emplace
InPlaceTypes == {"Multiplier", "Big"}
ArgLists(T) ==
  CASE T = "Multiplier" -> {<<>>, <<2, 3>>}
    [] OTHER -> Values(T)

\* F(us...): Multiplier() takes its default member initializer {2}
CtorValue(T, us) == IF T = "Multiplier" /\ us = <<>> THEN <<2>> ELSE us

\* the state a moved-from object is left in: a vector is left empty, the
\* other members are copied
MovedFrom(T, v) == IF TypeOf(T) = "Multiplier" THEN <<>> ELSE v

Args == 1 .. MaxArg

\* C++ integer division truncates towards zero
TruncDiv(x, d) == IF x >= 0 THEN x \div d ELSE -((-x) \div d)

RECURSIVE Product(_, _)
Product(s, x) == IF s = <<>> THEN x ELSE Product(Tail(s), x * Head(s))

\* std::invoke(f, x) for an object of type T with members v: the result and
\* the members afterwards (the generator of the mutable lambda advances)
Call(T, v, x) ==
  LET F == TypeOf(T)
  IN  CASE F = "FnPtr" ->
             [res |-> IF v[1] = Times2 THEN x * 2 ELSE TruncDiv(x, 2), v |-> v]
        [] F = "Adder" -> [res |-> v[1] + x, v |-> v]
        [] F = "Multiplier" -> [res |-> Product(v, x), v |-> v]
        [] F = "RandMin" -> [res |-> x + v[1], v |-> <<(v[1] + 1) % GenPeriod>>]
        [] F = "Big" -> [res |-> x - v[1], v |-> v]

\* the constexpr condition of construct(): stored inline or on the free store
IsInline(T) ==
  SizeOf[TypeOf(T)] <= SizeofStorage /\ StorageAlign % AlignOf[TypeOf(T)] = 0

(***************************************************************************)
(* Memory: what a Storage region and a free-store block can hold.          *)
(***************************************************************************)
\* bytes with no live object in them
Raw == [k |-> "raw", t |-> NULL, v |-> <<>>, p |-> 0]
\* a live object of type t with members v
Obj(t, v) == [k |-> "obj", t |-> t, v |-> v, p |-> 0]
\* a void* written through as_ptr(); 0 is the null pointer
Ptr(p) == [k |-> "ptr", t |-> NULL, v |-> <<>>, p |-> p]

\* a free-store block: free, allocated without an object, or holding one
FreeBlock == [st |-> "free", by |-> "-", t |-> NULL, v |-> <<>>]
Addrs == 1 .. MaxHeap

\* void* arguments of the vtable entries: &x.storage_, &temp, or a block
Inl(s) == [heap |-> FALSE, s |-> s, p |-> 0]
Blk(p) == [heap |-> TRUE, s |-> "-", p |-> p]

Err(m, e) == [m EXCEPT !.err = @ \cup {e}]
Thrown(m, e) == [m EXCEPT !.exc = e]

LiveAt(m, loc) ==
  IF loc.heap
    THEN loc.p \in Addrs /\ m.heap[loc.p].st = "obj"
    ELSE m.storage_[loc.s].k = "obj"

TypeAt(m, loc) == IF loc.heap THEN m.heap[loc.p].t ELSE m.storage_[loc.s].t
ValAt(m, loc) == IF loc.heap THEN m.heap[loc.p].v ELSE m.storage_[loc.s].v

\* static_cast<F*>(self) designates a live F
IsA(m, loc, T) == LiveAt(m, loc) /\ TypeAt(m, loc) = TypeOf(T)

\* new (self) F(...): starts the lifetime of an F with members v at loc
Placed(m, loc, T, v) ==
  IF loc.heap
    THEN IF loc.p \in Addrs /\ m.heap[loc.p].st = "raw"
           THEN [m EXCEPT !.heap[loc.p].st = "obj",
                          !.heap[loc.p].t = TypeOf(T),
                          !.heap[loc.p].v = v]
           ELSE Err(m, "construct_in_bad_block")
    ELSE IF m.storage_[loc.s].k = "obj"
           THEN Err(m, "construct_over_live")
           ELSE [m EXCEPT !.storage_[loc.s] = Obj(TypeOf(T), v)]

\* the members of the live object at loc become v
Assigned(m, loc, v) ==
  IF loc.heap
    THEN [m EXCEPT !.heap[loc.p].v = v]
    ELSE [m EXCEPT !.storage_[loc.s].v = v]

\* std::malloc / operator new: the lowest free address, 0 when there is none
\* or the allocation is made to fail
FreeAddrs(m) == {p \in Addrs : m.heap[p].st = "free"}
LowestFree(m) == CHOOSE p \in FreeAddrs(m) : \A q \in FreeAddrs(m) : p <= q
Allocated(m, by, oom) ==
  IF oom \/ FreeAddrs(m) = {}
    THEN [m EXCEPT !.ret = 0]
    ELSE LET p == LowestFree(m)
         IN  [m EXCEPT !.heap[p] = [st |-> "raw", by |-> by, t |-> NULL, v |-> <<>>],
                       !.ret = p]

\* std::free / operator delete of the block at p
Released(m, p, by) ==
  IF p = 0 THEN m
  ELSE IF m.heap[p].st = "free" THEN Err(m, "double_free")
  ELSE LET m1 == IF m.heap[p].by = by THEN m ELSE Err(m, "alloc_dealloc_mismatch")
           m2 == IF m1.heap[p].st = "obj" THEN Err(m1, "free_of_live_object") ELSE m1
       IN  [m2 EXCEPT !.heap[p] = FreeBlock]

(***************************************************************************)
(* detail::get_vtbl<F, R, As...>(): the seven entries for F = T.           *)
(***************************************************************************)
\* destroy: static_cast<F*>(self)->F::~F()
VtDestroy(m, T, self) ==
  IF ~IsA(m, self, T) THEN Err(m, "destroy_of_dead_object")
  ELSE IF self.heap
    THEN [m EXCEPT !.heap[self.p].st = "raw",
                   !.heap[self.p].t = NULL,
                   !.heap[self.p].v = <<>>]
    ELSE [m EXCEPT !.storage_[self.s] = Raw]

\* destroy_dealloc: delete static_cast<F*>(self)
VtDestroyDealloc(m, T, self) ==
  Released(VtDestroy(m, T, self), self.p, "new")

\* the copy entry constructing from std::move(other) instead of other
VtCopy_Moves(m, T, self, other, fail) ==
  IF ~IsA(m, other, T) THEN Err(m, "copy_of_dead_object")
  ELSE IF fail = "ctor" /\ CtorMayThrow(T) THEN Thrown(m, "ctor")
  ELSE LET v == ValAt(m, other)
       IN  Assigned(Placed(m, self, T, v), other, MovedFrom(T, v))

\* copy: new (self) F(*static_cast<const F*>(other))
VtCopy(m, T, self, other, fail) ==
  IF ~IsA(m, other, T) THEN Err(m, "copy_of_dead_object")
  ELSE IF fail = "ctor" /\ CtorMayThrow(T) THEN Thrown(m, "ctor")
  ELSE Placed(m, self, T, ValAt(m, other))

\* move: new (self) F(std::move(*static_cast<F*>(other)))
VtMove(m, T, self, other) ==
  IF ~IsA(m, other, T) THEN Err(m, "move_of_dead_object")
  ELSE LET v == ValAt(m, other)
       IN  Assigned(Placed(m, self, T, v), other, MovedFrom(T, v))

\* the swap entry destroying rhs before temp has been move-constructed from it
VtSwap_DestroyFirst(m, T, self, other) ==
  IF ~IsA(m, self, T) \/ ~IsA(m, other, T) THEN Err(m, "swap_of_dead_object")
  ELSE IF NothrowSwappable(T)
    THEN LET l == ValAt(m, self)
             r == ValAt(m, other)
         IN  Assigned(Assigned(m, self, r), other, l)
    ELSE LET m1 == VtDestroy(m, T, other)
             m2 == VtMove(m1, T, Inl(VTemp), other)
             m3 == VtMove(m2, T, other, self)
             m4 == VtDestroy(m3, T, self)
             m5 == VtMove(m4, T, self, Inl(VTemp))
         IN  VtDestroy(m5, T, Inl(VTemp))

\* swap: std::swap when F is nothrow swappable, else the move/destroy dance
\* through the local `F temp`, which is destroyed at the end of the block
VtSwap(m, T, self, other) ==
  IF ~IsA(m, self, T) \/ ~IsA(m, other, T) THEN Err(m, "swap_of_dead_object")
  ELSE IF NothrowSwappable(T)
    THEN LET l == ValAt(m, self)
             r == ValAt(m, other)
         IN  Assigned(Assigned(m, self, r), other, l)
    ELSE LET m1 == VtMove(m, T, Inl(VTemp), other)
             m2 == VtDestroy(m1, T, other)
             m3 == VtMove(m2, T, other, self)
             m4 == VtDestroy(m3, T, self)
             m5 == VtMove(m4, T, self, Inl(VTemp))
         IN  VtDestroy(m5, T, Inl(VTemp))

\* clone handing back the address of the object it was asked to copy
VtClone_Shallow(m, T, self, fail) ==
  IF ~IsA(m, self, T) THEN Err(m, "copy_of_dead_object")
  ELSE IF fail = "oom" THEN Thrown(m, "bad_alloc")
  ELSE IF fail = "ctor" /\ CtorMayThrow(T) THEN Thrown(m, "ctor")
  ELSE [m EXCEPT !.ret = self.p]

\* clone that keeps the block when the copy constructor throws
VtClone_LeakOnThrow(m, T, self, fail) ==
  IF ~IsA(m, self, T) THEN Err(m, "copy_of_dead_object")
  ELSE LET m1 == Allocated(m, "new", fail = "oom")
       IN  IF m1.ret = 0 THEN Thrown(m1, "bad_alloc")
           ELSE IF fail = "ctor" /\ CtorMayThrow(T)
             THEN Thrown(m1, "ctor")
             ELSE Placed(m1, Blk(m1.ret), T, ValAt(m, self))

\* clone: new F(*static_cast<const F*>(self)); the address is left in ret
VtClone(m, T, self, fail) ==
  IF ~IsA(m, self, T) THEN Err(m, "copy_of_dead_object")
  ELSE LET m1 == Allocated(m, "new", fail = "oom")
       IN  IF m1.ret = 0 THEN Thrown(m1, "bad_alloc")
           ELSE IF fail = "ctor" /\ CtorMayThrow(T)
             THEN Thrown(Released(m1, m1.ret, "new"), "ctor")
             ELSE Placed(m1, Blk(m1.ret), T, ValAt(m, self))

\* invoke: std::invoke(*static_cast<F*>(self), as...); the result is left in
\* res
VtInvoke(m, T, self, x) ==
  IF ~IsA(m, self, T) THEN Err(m, "invoke_of_dead_object")
  ELSE LET c == Call(T, ValAt(m, self), x)
       IN  [Assigned(m, self, c.v) EXCEPT !.res = c.res]

(***************************************************************************)
(* Function<R(As...)>: private helpers.                                    *)
(***************************************************************************)
\* as_ptr(): assert(is_ptr_), then the void* stored at &storage_
AsPtrChecked(m, x) ==
  LET m1 == IF m.is_ptr_[x] THEN m ELSE Err(m, "as_ptr_assert")
  IN  IF m1.storage_[x].k = "ptr" THEN m1 ELSE Err(m1, "indeterminate_pointer_read")

AsPtr(m, x) == IF m.storage_[x].k = "ptr" THEN m.storage_[x].p ELSE 0

\* as_ptr() = p
AsPtrSet(m, x, p) ==
  LET m1 == IF m.is_ptr_[x] THEN m ELSE Err(m, "as_ptr_assert")
      m2 == IF m1.storage_[x].k = "obj" THEN Err(m1, "pointer_over_live_object") ELSE m1
  IN  [m2 EXCEPT !.storage_[x] = Ptr(p)]

\* construct() with the free-store branch not recording is_ptr_ = true
construct_FlagNotSet(m, x, T, v, fail) ==
  LET m1 == [m EXCEPT !.vptr_[x] = T, !.is_ptr_[x] = FALSE]
  IN  IF IsInline(T)
        THEN IF fail = "ctor" /\ CtorMayThrow(T)
               THEN Thrown(m1, "ctor")
               ELSE Placed(m1, Inl(x), T, v)
        ELSE LET m2 == Allocated(m1, "malloc", fail = "oom")
                 ptr == m2.ret
             IN  IF ptr = 0 THEN Thrown(m2, "bad_alloc")
                 ELSE IF fail = "ctor" /\ CtorMayThrow(T)
                   THEN Thrown(Released(m2, ptr, "malloc"), "ctor")
                   ELSE [Placed(m2, Blk(ptr), T, v) EXCEPT !.storage_[x] = Ptr(ptr)]

\* construct() without the catch block that frees the block
construct_LeakOnThrow(m, x, T, v, fail) ==
  LET m1 == [m EXCEPT !.vptr_[x] = T]
  IN  IF IsInline(T)
        THEN LET m2 == [m1 EXCEPT !.is_ptr_[x] = FALSE]
             IN  IF fail = "ctor" /\ CtorMayThrow(T)
                   THEN Thrown(m2, "ctor")
                   ELSE Placed(m2, Inl(x), T, v)
        ELSE LET m2 == Allocated(m1, "malloc", fail = "oom")
                 ptr == m2.ret
             IN  IF ptr = 0 THEN Thrown(m2, "bad_alloc")
                 ELSE IF fail = "ctor" /\ CtorMayThrow(T)
                   THEN Thrown(m2, "ctor")
                   ELSE LET m3 == Placed(m2, Blk(ptr), T, v)
                            m4 == [m3 EXCEPT !.is_ptr_[x] = TRUE]
                        IN  AsPtrSet(m4, x, ptr)

\* construct<F>(ts...): F = T, and v the members F(ts...) gives the object
construct(m, x, T, v, fail) ==
  LET m0 == IF m.vptr_[x] = NULL THEN m ELSE Err(m, "construct_assert")
      m1 == [m0 EXCEPT !.vptr_[x] = T]
  IN  IF IsInline(T)
        THEN LET m2 == [m1 EXCEPT !.is_ptr_[x] = FALSE]
             IN  IF fail = "ctor" /\ CtorMayThrow(T)
                   THEN Thrown(m2, "ctor")
                   ELSE Placed(m2, Inl(x), T, v)
        ELSE LET m2 == Allocated(m1, "malloc", fail = "oom")
                 ptr == m2.ret
             IN  IF ptr = 0 THEN Thrown(m2, "bad_alloc")
                 ELSE IF fail = "ctor" /\ CtorMayThrow(T)
                   THEN Thrown(Released(m2, ptr, "malloc"), "ctor")
                   ELSE LET m3 == Placed(m2, Blk(ptr), T, v)
                            m4 == [m3 EXCEPT !.is_ptr_[x] = TRUE]
                        IN  AsPtrSet(m4, x, ptr)

\* the members of a Function whose constructor has not run, or did not
\* complete: no object exists
NoFunction(m, x) ==
  [m EXCEPT !.vptr_[x] = NULL, !.is_ptr_[x] = FALSE, !.storage_[x] = Raw]

(***************************************************************************)
(* Function<R(As...)>: the public member functions, on a machine state m.  *)
(* x is *this, o is other; u is the indeterminate value of an is_ptr_ that *)
(* a constructor leaves uninitialised.                                     *)
(***************************************************************************)
\* Function()
FunctionDefault(m, x, u) ==
  [m EXCEPT !.vptr_[x] = NULL, !.is_ptr_[x] = u, !.storage_[x] = Raw]

\* Function(F&&), Function(in_place_type_t<F>, ...): vptr_ starts null and
\* construct() assigns is_ptr_ on every path that returns
FunctionFrom(m, x, T, v, fail) ==
  LET m1 == construct(NoFunction(m, x), x, T, v, fail)
  IN  IF m1.exc # "none" THEN NoFunction(m1, x) ELSE m1

\* Function(const Function &other)
FunctionCopy(m, x, o, fail, u) ==
  LET m0 == [FunctionDefault(m, x, u) EXCEPT !.vptr_[x] = m.vptr_[o]]
      T  == m0.vptr_[x]
  IN  IF T = NULL THEN m0
      ELSE LET m1 == [m0 EXCEPT !.is_ptr_[x] = m0.is_ptr_[o]]
               m2 == IF m1.is_ptr_[x]
                       THEN LET c == VtClone(AsPtrChecked(m1, o), T, Blk(AsPtr(m1, o)), fail)
                            IN  IF c.exc # "none" THEN c ELSE AsPtrSet(c, x, c.ret)
                       ELSE VtCopy(m1, T, Inl(x), Inl(o), fail)
           IN  IF m2.exc # "none" THEN NoFunction(m2, x) ELSE m2

\* move constructor that takes the pointer without emptying the source
FunctionMove_KeepSource(m, x, o, u) ==
  LET m0 == [FunctionDefault(m, x, u) EXCEPT !.vptr_[x] = m.vptr_[o]]
      T  == m0.vptr_[x]
  IN  IF T = NULL THEN m0
      ELSE LET m1 == [m0 EXCEPT !.is_ptr_[x] = m0.is_ptr_[o]]
           IN  IF m1.is_ptr_[x]
                 THEN AsPtrSet(AsPtrChecked(m1, o), x, AsPtr(m1, o))
                 ELSE VtMove(m1, T, Inl(x), Inl(o))

\* move construction that nulls other.vptr_ for an inline source as well
FunctionMove_ClearsSource(m, x, o, u) ==
  LET m0 == [FunctionDefault(m, x, u) EXCEPT !.vptr_[x] = m.vptr_[o]]
      T  == m0.vptr_[x]
  IN  IF T = NULL THEN m0
      ELSE LET m1 == [m0 EXCEPT !.is_ptr_[x] = m0.is_ptr_[o]]
               m2 == IF m1.is_ptr_[x]
                       THEN AsPtrSet(AsPtrChecked(m1, o), x, AsPtr(m1, o))
                       ELSE VtMove(m1, T, Inl(x), Inl(o))
           IN  [m2 EXCEPT !.vptr_[o] = NULL]

\* Function(Function &&other)
FunctionMove(m, x, o, u) ==
  LET m0 == [FunctionDefault(m, x, u) EXCEPT !.vptr_[x] = m.vptr_[o]]
      T  == m0.vptr_[x]
  IN  IF T = NULL THEN m0
      ELSE LET m1 == [m0 EXCEPT !.is_ptr_[x] = m0.is_ptr_[o]]
           IN  IF m1.is_ptr_[x]
                 THEN LET m2 == AsPtrSet(AsPtrChecked(m1, o), x, AsPtr(m1, o))
                      IN  [m2 EXCEPT !.vptr_[o] = NULL]
                 ELSE VtMove(m1, T, Inl(x), Inl(o))

\* reset() without the early return for an empty Function
reset_NoNullCheck(m, x) ==
  LET T  == m.vptr_[x]
      m1 == IF m.is_ptr_[x]
              THEN LET d == VtDestroy(AsPtrChecked(m, x), T, Blk(AsPtr(m, x)))
                       r == Released(AsPtrChecked(d, x), AsPtr(d, x), "malloc")
                   IN  AsPtrSet(r, x, 0)
              ELSE VtDestroy(m, T, Inl(x))
  IN  [m1 EXCEPT !.vptr_[x] = NULL]

\* reset() without the final vptr_ = nullptr
reset_TableKept(m, x) ==
  LET T == m.vptr_[x]
  IN  IF T = NULL THEN m
      ELSE IF m.is_ptr_[x]
             THEN LET d == VtDestroy(AsPtrChecked(m, x), T, Blk(AsPtr(m, x)))
                      r == Released(AsPtrChecked(d, x), AsPtr(d, x), "malloc")
                  IN  AsPtrSet(r, x, 0)
             ELSE VtDestroy(m, T, Inl(x))

\* reset()
reset(m, x) ==
  LET T == m.vptr_[x]
  IN  IF T = NULL THEN m
      ELSE LET m1 == IF m.is_ptr_[x]
                       THEN LET d == VtDestroy(AsPtrChecked(m, x), T, Blk(AsPtr(m, x)))
                                r == Released(AsPtrChecked(d, x), AsPtr(d, x), "malloc")
                            IN  AsPtrSet(r, x, 0)
                       ELSE VtDestroy(m, T, Inl(x))
           IN  [m1 EXCEPT !.vptr_[x] = NULL]

\* ~Function(): reset(), after which the members cease to exist
FunctionDtor(m, x) == NoFunction(reset(m, x), x)

\* the one-side-empty branch of swap() without the destructor call on the
\* moved-from source
SwapIntoEmpty_NoDestroy(m, dst, src) ==
  LET m1 == [m EXCEPT !.is_ptr_[dst] = m.is_ptr_[src]]
  IN  IF m.is_ptr_[src]
        THEN LET m2 == AsPtrSet(AsPtrChecked(m1, src), dst, AsPtr(m1, src))
             IN  AsPtrSet(m2, src, 0)
        ELSE VtMove(m1, m1.vptr_[src], Inl(dst), Inl(src))

\* the one-side-empty branch of swap() without is_ptr_ = other.is_ptr_
SwapIntoEmpty_FlagKept(m, dst, src) ==
  IF m.is_ptr_[src]
    THEN LET m2 == [m EXCEPT !.storage_[dst] = Ptr(AsPtr(m, src))]
         IN  AsPtrSet(m2, src, 0)
    ELSE LET m2 == VtMove(m, m.vptr_[src], Inl(dst), Inl(src))
         IN  VtDestroy(m2, m2.vptr_[src], Inl(src))

\* swap(), one side empty: dst has no wrapped object, src has one
\* (lines 481-490, and mirrored with *this and other exchanged, 491-500)
SwapIntoEmpty(m, dst, src) ==
  LET m1 == [m EXCEPT !.is_ptr_[dst] = m.is_ptr_[src]]
  IN  IF m.is_ptr_[src]
        THEN LET m2 == AsPtrSet(AsPtrChecked(m1, src), dst, AsPtr(m1, src))
             IN  AsPtrSet(m2, src, 0)
        ELSE LET m2 == VtMove(m1, m1.vptr_[src], Inl(dst), Inl(src))
             IN  VtDestroy(m2, m2.vptr_[src], Inl(src))

\* the both-on-the-free-store branch of swap() leaving the pointers in place
SwapPointers_NotExchanged(m, x, o) ==
  AsPtrChecked(AsPtrChecked(m, x), o)

\* swap(), both on the free store: std::swap(as_ptr(), other.as_ptr())
SwapPointers(m, x, o) ==
  LET m1 == AsPtrChecked(AsPtrChecked(m, x), o)
      px == AsPtr(m1, x)
      po == AsPtr(m1, o)
  IN  AsPtrSet(AsPtrSet(m1, x, po), o, px)

\* the mixed branch of swap() with both is_ptr_ flags left as they were
SwapHeapInline_FlagsKept(m, hp, in) ==
  LET T  == m.vptr_[in]
      m1 == VtMove(m, T, Inl(Temp), Inl(in))
      m2 == VtDestroy(m1, T, Inl(in))
      m4 == [m2 EXCEPT !.storage_[in] = Ptr(AsPtr(m2, hp))]
      m6 == VtMove([m4 EXCEPT !.storage_[hp] = Raw], T, Inl(hp), Inl(Temp))
  IN  VtDestroy(m6, T, Inl(Temp))

\* the mixed branch of swap() writing other.as_ptr() before other.is_ptr_
SwapHeapInline_PointerFirst(m, hp, in) ==
  LET T  == m.vptr_[in]
      m1 == VtMove(m, T, Inl(Temp), Inl(in))
      m2 == VtDestroy(m1, T, Inl(in))
      m3 == AsPtrSet(AsPtrChecked(m2, hp), in, AsPtr(m2, hp))
      m4 == [m3 EXCEPT !.is_ptr_[in] = TRUE]
      m5 == [m4 EXCEPT !.is_ptr_[hp] = FALSE]
      m6 == VtMove(m5, T, Inl(hp), Inl(Temp))
  IN  VtDestroy(m6, T, Inl(Temp))

\* swap(), hp on the free store and in stored inline
\* (lines 505-514, and mirrored with *this and other exchanged, 518-527)
SwapHeapInline(m, hp, in) ==
  LET T  == m.vptr_[in]
      m1 == VtMove(m, T, Inl(Temp), Inl(in))
      m2 == VtDestroy(m1, T, Inl(in))
      m3 == [m2 EXCEPT !.is_ptr_[in] = TRUE]
      m4 == AsPtrSet(AsPtrChecked(m3, hp), in, AsPtr(m3, hp))
      m5 == [m4 EXCEPT !.is_ptr_[hp] = FALSE]
      m6 == VtMove(m5, T, Inl(hp), Inl(Temp))
  IN  VtDestroy(m6, T, Inl(Temp))

\* the inline/inline branch of swap() moving other's object into *this
\* before the object of *this has been destroyed
SwapInlineInline_MoveFirst(m, x, o) ==
  LET Tx == m.vptr_[x]
      To == m.vptr_[o]
      m1 == VtMove(m, Tx, Inl(Temp), Inl(x))
      m2 == VtMove(m1, To, Inl(x), Inl(o))
      m3 == VtDestroy(m2, Tx, Inl(x))
      m4 == VtDestroy(m3, To, Inl(o))
      m5 == VtMove(m4, Tx, Inl(o), Inl(Temp))
  IN  VtDestroy(m5, Tx, Inl(Temp))

\* swap(), both stored inline, different vtables (lines 529-537)
SwapInlineInline(m, x, o) ==
  LET Tx == m.vptr_[x]
      To == m.vptr_[o]
      m1 == VtMove(m, Tx, Inl(Temp), Inl(x))
      m2 == VtDestroy(m1, Tx, Inl(x))
      m3 == VtMove(m2, To, Inl(x), Inl(o))
      m4 == VtDestroy(m3, To, Inl(o))
      m5 == VtMove(m4, Tx, Inl(o), Inl(Temp))
  IN  VtDestroy(m5, Tx, Inl(Temp))

\* swap() choosing its branch by is_ptr_ before it tests for an empty side
swap_FlagsFirst(m, x, o) ==
  IF x = o \/ (m.vptr_[x] = NULL /\ m.vptr_[o] = NULL) THEN m
  ELSE LET m1 ==
             IF m.vptr_[x] = m.vptr_[o] /\ ~m.is_ptr_[x] /\ ~m.is_ptr_[o]
               THEN VtSwap(m, m.vptr_[x], Inl(x), Inl(o))
             ELSE IF m.is_ptr_[x] /\ m.is_ptr_[o] THEN SwapPointers(m, x, o)
             ELSE IF m.vptr_[x] = NULL THEN SwapIntoEmpty(m, x, o)
             ELSE IF m.vptr_[o] = NULL THEN SwapIntoEmpty(m, o, x)
             ELSE IF m.is_ptr_[x] THEN SwapHeapInline(m, x, o)
             ELSE IF m.is_ptr_[o] THEN SwapHeapInline(m, o, x)
             ELSE SwapInlineInline(m, x, o)
       IN  [m1 EXCEPT !.vptr_[x] = m1.vptr_[o], !.vptr_[o] = m1.vptr_[x]]

\* swap() without the final exchange of the table pointers
swap_TablesKept(m, x, o) ==
  IF x = o \/ (m.vptr_[x] = NULL /\ m.vptr_[o] = NULL) THEN m
  ELSE IF m.vptr_[x] = m.vptr_[o] /\ ~m.is_ptr_[x] /\ ~m.is_ptr_[o]
         THEN VtSwap(m, m.vptr_[x], Inl(x), Inl(o))
       ELSE IF m.vptr_[x] = NULL THEN SwapIntoEmpty(m, x, o)
       ELSE IF m.vptr_[o] = NULL THEN SwapIntoEmpty(m, o, x)
       ELSE IF m.is_ptr_[x]
         THEN IF m.is_ptr_[o]
                THEN SwapPointers(m, x, o)
                ELSE SwapHeapInline(m, x, o)
         ELSE IF m.is_ptr_[o]
                THEN SwapHeapInline(m, o, x)
                ELSE SwapInlineInline(m, x, o)

\* swap(Function &other)
swap(m, x, o) ==
  IF x = o \/ (m.vptr_[x] = NULL /\ m.vptr_[o] = NULL) THEN m
  ELSE LET m1 ==
             IF m.vptr_[x] = m.vptr_[o] /\ ~m.is_ptr_[x] /\ ~m.is_ptr_[o]
               THEN VtSwap(m, m.vptr_[x], Inl(x), Inl(o))
             ELSE IF m.vptr_[x] = NULL THEN SwapIntoEmpty(m, x, o)
             ELSE IF m.vptr_[o] = NULL THEN SwapIntoEmpty(m, o, x)
             ELSE IF m.is_ptr_[x]
               THEN IF m.is_ptr_[o]
                      THEN SwapPointers(m, x, o)
                      ELSE SwapHeapInline(m, x, o)
               ELSE IF m.is_ptr_[o]
                      THEN SwapHeapInline(m, o, x)
                      ELSE SwapInlineInline(m, x, o)
       IN  [m1 EXCEPT !.vptr_[x] = m1.vptr_[o], !.vptr_[o] = m1.vptr_[x]]

\* copy assignment without the test for self-assignment
AssignCopy_NoSelfCheck(m, x, o, fail, u) ==
  LET m1 == FunctionCopy(m, Local, o, fail, u)
  IN  IF m1.exc # "none" THEN m1
      ELSE FunctionDtor(swap(m1, x, Local), Local)

\* copy assignment that releases the old object before copying the new one
AssignCopy_ResetFirst(m, x, o, fail, u) ==
  IF x = o THEN m
  ELSE LET m1 == FunctionCopy(reset(m, x), Local, o, fail, u)
       IN  IF m1.exc # "none" THEN m1
           ELSE FunctionDtor(swap(m1, x, Local), Local)

\* operator=(const Function &other): Function copy(other); swap(copy);
\* copy is destroyed at the end of the block
AssignCopy(m, x, o, fail, u) ==
  IF x = o THEN m
  ELSE LET m1 == FunctionCopy(m, Local, o, fail, u)
       IN  IF m1.exc # "none" THEN m1
           ELSE FunctionDtor(swap(m1, x, Local), Local)

\* move assignment that destroys the old object of *this instead of handing
\* it to other
AssignMove_Take(m, x, o) == IF x = o THEN m ELSE swap(reset(m, x), x, o)

\* operator=(Function &&other)
AssignMove(m, x, o) == IF x = o THEN m ELSE swap(m, x, o)

\* assignment of a callable that releases the old object before building
\* the new one
AssignFrom_ResetFirst(m, x, T, v, fail) ==
  LET m1 == FunctionFrom(reset(m, x), Local, T, v, fail)
  IN  IF m1.exc # "none" THEN m1
      ELSE FunctionDtor(swap(m1, x, Local), Local)

\* operator=(F&&): Function new_func = f; swap(new_func);
AssignFrom(m, x, T, v, fail) ==
  LET m1 == FunctionFrom(m, Local, T, v, fail)
  IN  IF m1.exc # "none" THEN m1
      ELSE FunctionDtor(swap(m1, x, Local), Local)

\* emplace that leaves a non-empty *this as it is
emplace_KeepsOld(m, x, T, us, fail) ==
  LET m1 == FunctionFrom(m, Local, T, CtorValue(T, us), fail)
  IN  IF m1.exc # "none" THEN m1
      ELSE IF m.vptr_[x] # NULL THEN FunctionDtor(m1, Local)
      ELSE FunctionDtor(swap(m1, x, Local), Local)

\* emplace that constructs the new object directly in *this
emplace_InPlace(m, x, T, us, fail) ==
  LET m1 == construct(reset(m, x), x, T, CtorValue(T, us), fail)
  IN  IF m1.exc # "none" THEN [m1 EXCEPT !.vptr_[x] = NULL] ELSE m1

\* emplace<F>(us...): Function g(in_place_type<F>, us...); swap(g);
emplace(m, x, T, us, fail) ==
  LET m1 == FunctionFrom(m, Local, T, CtorValue(T, us), fail)
  IN  IF m1.exc # "none" THEN m1
      ELSE FunctionDtor(swap(m1, x, Local), Local)

\* operator() that always invokes the object at &storage_
call_AlwaysInline(m, x, a) ==
  LET m0 == IF m.vptr_[x] # NULL THEN m ELSE Err(m, "call_assert")
  IN  VtInvoke(m0, m0.vptr_[x], Inl(x), a)

\* operator()(as...): the caller has checked operator bool
call(m, x, a) ==
  LET m0 == IF m.vptr_[x] # NULL THEN m ELSE Err(m, "call_assert")
  IN  IF m0.is_ptr_[x]
        THEN VtInvoke(AsPtrChecked(m0, x), m0.vptr_[x], Blk(AsPtr(m0, x)), a)
        ELSE VtInvoke(m0, m0.vptr_[x], Inl(x), a)

\* operator bool()
Bool(m, x) == m.vptr_[x] # NULL

(***************************************************************************)
(* The state of the client program.                                        *)
(***************************************************************************)
VARIABLES
  alive,     \* alive[x]: the Function variable x is within its lifetime
  vptr_,     \* vptr_[x]: the type whose vtable x points at, or NULL
  is_ptr_,   \* is_ptr_[x]
  storage_,  \* storage_[x]: what the bytes of x's Storage hold
  heap,      \* the free store
  err,       \* precondition violations and undefined behaviour so far
  last       \* the operation executed last, its operands and its outcome

vars == <<alive, vptr_, is_ptr_, storage_, heap, err, last>>

\* failures an operation can be made to meet
Fails == {"none", "oom", "ctor"}
\* failures that can happen while an object of type T is constructed
FailsOf(T) ==
  {"none"} \cup (IF IsInline(T) THEN {} ELSE {"oom"})
           \cup (IF CtorMayThrow(T) THEN {"ctor"} ELSE {})
\* failures that can happen while the object wrapped by o is copied
FailsOfCopy(o) == IF vptr_[o] = NULL THEN {"none"} ELSE FailsOf(vptr_[o])
\* the values the is_ptr_ of a Function copied or moved from o can be left
\* with: the copy and move constructors assign it unless o is empty
Indeterminate(o) == IF vptr_[o] = NULL THEN BOOLEAN ELSE {FALSE}

NoOp == [op |-> "init", x |-> "-", o |-> "-", exc |-> "none"]

\* the machine state an operation starts from: the variables, and the
\* locals of the member functions, which do not exist yet
Mach ==
  [vptr_    |-> [x \in FnIds |-> IF x \in Fns THEN vptr_[x] ELSE NULL],
   is_ptr_  |-> [x \in FnIds |-> IF x \in Fns THEN is_ptr_[x] ELSE FALSE],
   storage_ |-> [s \in Slots |-> IF s \in Fns THEN storage_[s] ELSE Raw],
   heap     |-> heap,
   err      |-> err,
   exc      |-> "none",
   ret      |-> 0,
   res      |-> 0]

\* objects still alive in a local when the member function returns
LeftInLocals(m) ==
  {"live_object_left_in_" \o s : s \in {s \in {Local, Temp, VTemp} : m.storage_[s].k = "obj"}}

\* the operation returned (or threw) with machine state m
Done(m, d) ==
  /\ vptr_' = [x \in Fns |-> m.vptr_[x]]
  /\ is_ptr_' = [x \in Fns |-> m.is_ptr_[x]]
  /\ storage_' = [x \in Fns |-> m.storage_[x]]
  /\ heap' = m.heap
  /\ err' = m.err \cup LeftInLocals(m)
  /\ last' = [d EXCEPT !.exc = m.exc]

Init ==
  /\ alive = [x \in Fns |-> FALSE]
  /\ vptr_ = [x \in Fns |-> NULL]
  /\ is_ptr_ = [x \in Fns |-> FALSE]
  /\ storage_ = [x \in Fns |-> Raw]
  /\ heap = [p \in Addrs |-> FreeBlock]
  /\ err = {}
  /\ last = NoOp

(***************************************************************************)
(* One action per public operation.                                        *)
(***************************************************************************)
\* Function<int(int)> x;
DefaultCtor(x, u) ==
  /\ ~alive[x]
  /\ alive' = [alive EXCEPT ![x] = TRUE]
  /\ Done(FunctionDefault(Mach, x, u), [NoOp EXCEPT !.op = "Function()", !.x = x])

\* Function<int(int)> x = f;  with f of type T and members v
CtorF(x, T, v, fail) ==
  /\ ~alive[x]
  /\ LET m == FunctionFrom(Mach, x, T, v, fail)
     IN  /\ alive' = [alive EXCEPT ![x] = (m.exc = "none")]
         /\ Done(m, [NoOp EXCEPT !.op = "Function(F)", !.x = x])

\* Function<int(int)> x(std::in_place_type<T>, us...);
CtorInPlace(x, T, us, fail) ==
  /\ ~alive[x]
  /\ LET m == FunctionFrom(Mach, x, T, CtorValue(T, us), fail)
     IN  /\ alive' = [alive EXCEPT ![x] = (m.exc = "none")]
         /\ Done(m, [NoOp EXCEPT !.op = "Function(in_place)", !.x = x])

\* Function<int(int)> x = o;
CopyCtor(x, o, fail, u) ==
  /\ ~alive[x] /\ alive[o]
  /\ LET m == FunctionCopy(Mach, x, o, fail, u)
     IN  /\ alive' = [alive EXCEPT ![x] = (m.exc = "none")]
         /\ Done(m, [NoOp EXCEPT !.op = "Function(const&)", !.x = x, !.o = o])

\* Function<int(int)> x = std::move(o);
MoveCtor(x, o, u) ==
  /\ ~alive[x] /\ alive[o]
  /\ alive' = [alive EXCEPT ![x] = TRUE]
  /\ Done(FunctionMove(Mach, x, o, u), [NoOp EXCEPT !.op = "Function(&&)", !.x = x, !.o = o])

\* x goes out of scope
Dtor(x) ==
  /\ alive[x]
  /\ alive' = [alive EXCEPT ![x] = FALSE]
  /\ Done(FunctionDtor(Mach, x), [NoOp EXCEPT !.op = "~Function", !.x = x])

\* x = o;
CopyAssign(x, o, fail, u) ==
  /\ alive[x] /\ alive[o]
  /\ UNCHANGED alive
  /\ Done(AssignCopy(Mach, x, o, fail, u), [NoOp EXCEPT !.op = "=(const&)", !.x = x, !.o = o])

\* x = std::move(o);
MoveAssign(x, o) ==
  /\ alive[x] /\ alive[o]
  /\ UNCHANGED alive
  /\ Done(AssignMove(Mach, x, o), [NoOp EXCEPT !.op = "=(&&)", !.x = x, !.o = o])

\* x = f;
AssignF(x, T, v, fail) ==
  /\ alive[x]
  /\ UNCHANGED alive
  /\ Done(AssignFrom(Mach, x, T, v, fail), [NoOp EXCEPT !.op = "=(F)", !.x = x])

\* x.emplace<T>(us...);
Emplace(x, T, us, fail) ==
  /\ alive[x]
  /\ UNCHANGED alive
  /\ Done(emplace(Mach, x, T, us, fail), [NoOp EXCEPT !.op = "emplace", !.x = x])

\* x.reset();
Reset(x) ==
  /\ alive[x]
  /\ UNCHANGED alive
  /\ Done(reset(Mach, x), [NoOp EXCEPT !.op = "reset", !.x = x])

\* x.swap(o);  swap(x, o);
Swap(x, o) ==
  /\ alive[x] /\ alive[o]
  /\ UNCHANGED alive
  /\ Done(swap(Mach, x, o), [NoOp EXCEPT !.op = "swap", !.x = x, !.o = o])

\* x(a);  only on a Function that wraps an object
Invoke(x, a) ==
  /\ alive[x] /\ vptr_[x] # NULL
  /\ UNCHANGED alive
  /\ Done(call(Mach, x, a), [NoOp EXCEPT !.op = "()", !.x = x])

Next ==
  \/ \E x \in Fns, u \in BOOLEAN : DefaultCtor(x, u)
  \/ \E x \in Fns, T \in Types :
       \E v \in Values(T), fail \in FailsOf(T) : CtorF(x, T, v, fail)
  \/ \E x \in Fns, T \in InPlaceTypes :
       \E us \in ArgLists(T), fail \in FailsOf(T) : CtorInPlace(x, T, us, fail)
  \/ \E x \in Fns, o \in Fns :
       \E fail \in FailsOfCopy(o), u \in Indeterminate(o) : CopyCtor(x, o, fail, u)
  \/ \E x \in Fns, o \in Fns : \E u \in Indeterminate(o) : MoveCtor(x, o, u)
  \/ \E x \in Fns : Dtor(x)
  \/ \E x \in Fns, o \in Fns :
       \E fail \in FailsOfCopy(o), u \in Indeterminate(o) : CopyAssign(x, o, fail, u)
  \/ \E x \in Fns, o \in Fns : MoveAssign(x, o)
  \/ \E x \in Fns, T \in Types :
       \E v \in Values(T), fail \in FailsOf(T) : AssignF(x, T, v, fail)
  \/ \E x \in Fns, T \in InPlaceTypes :
       \E us \in ArgLists(T), fail \in FailsOf(T) : Emplace(x, T, us, fail)
  \/ \E x \in Fns : Reset(x)
  \/ \E x \in Fns, o \in Fns : Swap(x, o)
  \/ \E x \in Fns, a \in Args : Invoke(x, a)

Spec == Init /\ [][Next]_vars

(***************************************************************************)
(* A client built from two translation units.  Both wrap function          *)
(* pointers, and Functions made in one are handed to the other; the first  *)
(* also wraps the Adder closure.  A Function constructed or assigned in    *)
(* the second unit records that unit's table.  None of these types is      *)
(* stored on the free store or throws.                                     *)
(***************************************************************************)
UnitTables == {"FnPtr", Vtbl2("FnPtr"), "Adder"}

NextUnits ==
  \/ \E x \in Fns, u \in BOOLEAN : DefaultCtor(x, u)
  \/ \E x \in Fns, T \in UnitTables : \E v \in Values(T) : CtorF(x, T, v, "none")
  \/ \E x \in Fns, o \in Fns : \E u \in Indeterminate(o) : CopyCtor(x, o, "none", u)
  \/ \E x \in Fns, o \in Fns : \E u \in Indeterminate(o) : MoveCtor(x, o, u)
  \/ \E x \in Fns : Dtor(x)
  \/ \E x \in Fns, T \in UnitTables : \E v \in Values(T) : AssignF(x, T, v, "none")
  \/ \E x \in Fns : Reset(x)
  \/ \E x \in Fns, o \in Fns : Swap(x, o)
  \/ \E x \in Fns, a \in Args : Invoke(x, a)

SpecUnits == Init /\ [][NextUnits]_vars

(***************************************************************************)
(* What a client can observe of a Function, in a machine state m.          *)
(***************************************************************************)
\* where the wrapped object of x is: the block as_ptr() names, or storage_
Where(m, x) == IF m.is_ptr_[x] THEN Blk(AsPtr(m, x)) ELSE Inl(x)

\* the wrapped object: its type and members, and whether it is alive
Wrapped(m, x) ==
  IF m.vptr_[x] # NULL /\ LiveAt(m, Where(m, x))
    THEN [live |-> TRUE, t |-> TypeAt(m, Where(m, x)), v |-> ValAt(m, Where(m, x))]
    ELSE [live |-> FALSE, t |-> NULL, v |-> <<>>]

\* x(a) for every argument a: the value returned, and whether the call was
\* free of precondition violations
Results(m, x) ==
  [a \in Args |->
     IF m.vptr_[x] = NULL
       THEN [ok |-> FALSE, res |-> 0]
       ELSE LET c == call(m, x, a)
            IN  [ok |-> c.err = m.err, res |-> IF c.err = m.err THEN c.res ELSE 0]]

\* emptiness, storage mode, wrapped object and invocation results of x
Observed(m, x) ==
  [nonempty |-> Bool(m, x),
   heap     |-> Bool(m, x) /\ m.is_ptr_[x],
   table    |-> m.vptr_[x],
   obj      |-> Wrapped(m, x),
   results  |-> Results(m, x)]

\* f(a) for a callable f of type T with members v, called directly
Direct(T, v) == [a \in Args |-> [ok |-> TRUE, res |-> Call(T, v, a).res]]

\* the free-store blocks in use
Blocks(m) == {p \in Addrs : m.heap[p].st # "free"}
\* the blocks the Functions of X own
Owned(m, X) == {AsPtr(m, x) : x \in {y \in X : m.vptr_[y] # NULL /\ m.is_ptr_[y]}}

(***************************************************************************)
(* C1  A Function constructed from a callable f (Function(F&&), or         *)
(* in_place_type with constructor arguments) is non-empty and returns      *)
(* f(a) for every argument a, whether f is stored inline or on the free    *)
(* store.                                                                  *)
(***************************************************************************)
C1_ConstructedCallsThrough ==
  \A x \in Fns : ~alive[x] =>
    /\ \A T \in Types : \A v \in Values(T) :
         LET m == FunctionFrom(Mach, x, T, v, "none")
         IN  m.exc = "none" =>
               /\ Bool(m, x)
               /\ Results(m, x) = Direct(T, v)
    /\ \A T \in InPlaceTypes : \A us \in ArgLists(T) :
         LET m == FunctionFrom(Mach, x, T, CtorValue(T, us), "none")
         IN  m.exc = "none" =>
               /\ Bool(m, x)
               /\ Results(m, x) = Direct(T, CtorValue(T, us))

\* a Function was constructed in place around an object kept on the free store
C1_Witness ==
  /\ last.op = "Function(in_place)" /\ last.exc = "none"
  /\ alive[last.x] /\ vptr_[last.x] = "Big" /\ is_ptr_[last.x]
  /\ Results(Mach, last.x) = Direct("Big", <<3>>)

(***************************************************************************)
(* C2  Copy independence: once d is a copy of c (copy construction or copy *)
(* assignment), no operation on c (assigning a callable to it, emplace,    *)
(* reset, destruction, invocation, self-assignment, self-swap, swap with a *)
(* third Function, assigning d to it) changes d's emptiness, wrapped       *)
(* object or invocation results; and the same with c and d exchanged.      *)
(* Stated for every pair of live Functions, whether or not one was made    *)
(* from the other.                                                         *)
(***************************************************************************)
\* the machine states an operation on c alone, or one that only reads d, can
\* lead to from the current state
AfterOpOn(c, d) ==
  {reset(Mach, c), FunctionDtor(Mach, c), AssignMove(Mach, c, c), swap(Mach, c, c)}
    \cup {call(Mach, c, a) : a \in {b \in Args : vptr_[c] # NULL}}
    \cup {AssignCopy(Mach, c, o, fail, FALSE) : o \in {c, d}, fail \in Fails}
    \cup UNION {{AssignFrom(Mach, c, T, v, fail) : v \in Values(T), fail \in Fails} : T \in Types}
    \cup UNION {{swap(FunctionFrom(Mach, Local, T, v, "none"), c, Local) : v \in Values(T)} : T \in Types}
    \cup UNION {{emplace(Mach, c, T, us, fail) : us \in ArgLists(T), fail \in Fails} : T \in InPlaceTypes}

C2_CopyIndependence ==
  \A c \in Fns, d \in Fns :
    (c # d /\ alive[c] /\ alive[d]) =>
      \A m \in AfterOpOn(c, d) : Observed(m, d) = Observed(Mach, d)

\* d has just been made a copy of c, and both keep their object on the free
\* store, each in a block of its own
C2_Witness ==
  /\ last.op \in {"Function(const&)", "=(const&)"} /\ last.exc = "none"
  /\ last.x # last.o
  /\ vptr_[last.x] = "RandMin" /\ is_ptr_[last.x]
  /\ Observed(Mach, last.x) = Observed(Mach, last.o)
  /\ AsPtr(Mach, last.x) # AsPtr(Mach, last.o)

(***************************************************************************)
(* C3  Move transfer: after d is move-constructed from c, d behaves as c   *)
(* did before the move and c no longer wraps an object, whether c was      *)
(* empty, inline or on the free store.                                     *)
(***************************************************************************)
C3_MoveLeavesSourceEmpty ==
  \A d \in Fns, c \in Fns :
    (~alive[d] /\ alive[c]) =>
      \A u \in Indeterminate(c) :
        LET m == FunctionMove(Mach, d, c, u)
        IN  /\ Observed(m, d) = Observed(Mach, c)
            /\ ~Bool(m, c)

(***************************************************************************)
(* C4  After a.swap(b) on two distinct Functions, a has the emptiness,     *)
(* wrapped object and invocation results b had and b has those a had, for  *)
(* every combination of empty / inline / free store and same or different  *)
(* types; each side's vtable is that of the object now in its storage; no  *)
(* object is left in swap's temporary and no block is allocated or freed.  *)
(***************************************************************************)
TableMatches(m, x) ==
  Bool(m, x) => IsA(m, Where(m, x), m.vptr_[x])

C4_SwapExchanges ==
  \A a \in Fns, b \in Fns :
    (a # b /\ alive[a] /\ alive[b]) =>
      LET m == swap(Mach, a, b)
      IN  /\ Observed(m, a) = Observed(Mach, b)
          /\ Observed(m, b) = Observed(Mach, a)
          /\ (TableMatches(Mach, a) /\ TableMatches(Mach, b))
               => (TableMatches(m, a) /\ TableMatches(m, b))
          /\ LeftInLocals(m) = {}
          /\ Blocks(m) = Blocks(Mach)
          /\ m.err = err

\* a swap has exchanged an inline object with one kept on the free store
C4_Witness ==
  /\ last.op = "swap" /\ last.x # last.o
  /\ vptr_[last.x] # NULL /\ vptr_[last.o] # NULL
  /\ is_ptr_[last.x] # is_ptr_[last.o]

(***************************************************************************)
(* C5  Swap involution: swap(a, b); swap(a, b) restores, in both           *)
(* Functions, emptiness, type, storage mode, wrapped object, its address   *)
(* on the free store, and invocation results.                              *)
(***************************************************************************)
\* the block a non-empty Function keeps its object in, 0 if none
BlockOf(m, x) == IF Bool(m, x) /\ m.is_ptr_[x] THEN AsPtr(m, x) ELSE 0

C5_SwapInvolution ==
  \A a \in Fns, b \in Fns :
    (a # b /\ alive[a] /\ alive[b]) =>
      LET m == swap(swap(Mach, a, b), a, b)
      IN  /\ \A x \in {a, b} :
                /\ Observed(m, x) = Observed(Mach, x)
                /\ BlockOf(m, x) = BlockOf(Mach, x)
          /\ m.heap = heap
          /\ m.err = err
          /\ LeftInLocals(m) = {}

\* a swap of an inline object of one type with an empty Function, or with an
\* object of another type, has happened, and swapping again changes both
C5_Witness ==
  /\ last.op = "swap" /\ last.x # last.o
  /\ vptr_[last.x] # vptr_[last.o]
  /\ ~(vptr_[last.x] # NULL /\ is_ptr_[last.x])
  /\ Observed(swap(Mach, last.x, last.o), last.x) # Observed(Mach, last.x)

(***************************************************************************)
(* C6  Strong guarantee of operator=(const Function&): when the copy of    *)
(* other's object throws (allocation failure or the copy constructor), the *)
(* target, the source and the free store are exactly as before, and no     *)
(* object is left behind in the temporary.                                 *)
(***************************************************************************)
\* every Function, the free store and the error record of m are those of the
\* current state, and m leaves nothing alive in a local
Untouched(m) ==
  /\ \A y \in Fns : /\ m.vptr_[y] = vptr_[y]
                    /\ m.is_ptr_[y] = is_ptr_[y]
                    /\ m.storage_[y] = storage_[y]
  /\ m.heap = heap
  /\ m.err = err
  /\ LeftInLocals(m) = {}

C6_CopyAssignStrong ==
  \A x \in Fns, o \in Fns :
    (alive[x] /\ alive[o]) =>
      \A fail \in Fails, u \in BOOLEAN :
        LET m == AssignCopy(Mach, x, o, fail, u)
        IN  m.exc # "none" => Untouched(m)

\* a copy assignment onto a non-empty Function has thrown
C6_Witness ==
  /\ last.op = "=(const&)" /\ last.exc # "none"
  /\ last.x # last.o
  /\ vptr_[last.x] # NULL /\ vptr_[last.o] # NULL
  /\ vptr_[last.x] # vptr_[last.o]

(***************************************************************************)
(* C7  Strong guarantee of emplace: when the allocation or the constructor *)
(* of the new object throws, the Function keeps its prior emptiness, type, *)
(* storage mode and wrapped value, and nothing is leaked.                  *)
(***************************************************************************)
C7_EmplaceStrong ==
  \A x \in Fns :
    alive[x] =>
      \A T \in InPlaceTypes : \A us \in ArgLists(T), fail \in Fails :
        LET m == emplace(Mach, x, T, us, fail)
        IN  m.exc # "none" => Untouched(m)

\* an emplace into a non-empty Function has thrown
C7_Witness ==
  /\ last.op = "emplace" /\ last.exc # "none"
  /\ vptr_[last.x] # NULL
  /\ Wrapped(Mach, last.x).live

(***************************************************************************)
(* C8  operator=(F&&): when constructing the new object throws, the        *)
(* Function is unchanged; when it succeeds, the Function wraps exactly the *)
(* new object and calls go to it, and the object wrapped before has been   *)
(* destroyed: its block is no longer in use and it is not alive in the     *)
(* temporary.                                                              *)
(***************************************************************************)
C8_AssignCallable ==
  \A x \in Fns :
    alive[x] =>
      \A T \in Types : \A v \in Values(T), fail \in Fails :
        LET m == AssignFrom(Mach, x, T, v, fail)
        IN  IF m.exc # "none" THEN Untouched(m)
            ELSE /\ Bool(m, x)
                 /\ m.vptr_[x] = T
                 /\ Wrapped(m, x) = [live |-> TRUE, t |-> T, v |-> v]
                 /\ Results(m, x) = Direct(T, v)
                 /\ BlockOf(Mach, x) # 0 => m.heap[BlockOf(Mach, x)].st = "free"
                 /\ Blocks(m) = (Blocks(Mach) \ {BlockOf(Mach, x)}) \cup (Owned(m, {x}))
                 /\ LeftInLocals(m) = {}
                 /\ \A y \in Fns \ {x} : Observed(m, y) = Observed(Mach, y)

\* a callable has been assigned to a Function that held an object on the free
\* store
C8_Witness ==
  /\ last.op = "=(F)" /\ last.exc = "none"
  /\ vptr_[last.x] = "Adder"
  /\ Results(Mach, last.x) \in {Direct("Adder", v) : v \in Values("Adder")}
  /\ \E p \in Addrs : heap[p].st = "free"

C10_MoveAssignEmptiesSource ==
  \A x \in Fns, o \in Fns :
    (x # o /\ alive[x] /\ alive[o]) => ~Bool(AssignMove(Mach, x, o), o)

(***************************************************************************)
(* C11  Self-assignment by copy and by move, and self-swap, change nothing *)
(* at all: the Function, the other Functions and the free store are as     *)
(* before, no object is constructed or destroyed, no block allocated or    *)
(* released, and no exception is thrown.                                   *)
(***************************************************************************)
C11_SelfAssignNoOp ==
  \A x \in Fns :
    alive[x] =>
      /\ \A fail \in Fails, u \in BOOLEAN : AssignCopy(Mach, x, x, fail, u) = Mach
      /\ AssignMove(Mach, x, x) = Mach
      /\ swap(Mach, x, x) = Mach

\* a Function holding an object on the free store has been assigned to
\* itself or swapped with itself
C11_Witness ==
  /\ last.op \in {"=(const&)", "=(&&)", "swap"}
  /\ last.x = last.o
  /\ vptr_[last.x] # NULL /\ is_ptr_[last.x]
  /\ heap[AsPtr(Mach, last.x)].st = "obj"

(***************************************************************************)
(* C12  reset(): a no-op on an empty Function; on a non-empty one the      *)
(* wrapped object's destructor runs once, a free-store block is released   *)
(* by the deallocator that matches its allocation, and the Function is     *)
(* empty afterwards; a second reset() is a no-op; the destructor does what *)
(* reset() does.                                                           *)
(***************************************************************************)
C12_ResetDestroysOnce ==
  \A x \in Fns :
    alive[x] =>
      LET m == reset(Mach, x)
      IN  /\ ~Bool(Mach, x) => m = Mach
          /\ Bool(Mach, x) =>
               /\ ~Bool(m, x)
               /\ ~LiveAt(m, Where(Mach, x))
               /\ BlockOf(Mach, x) # 0 => m.heap[BlockOf(Mach, x)].st = "free"
               /\ m.err = err
          /\ reset(m, x) = m
          /\ FunctionDtor(Mach, x) = NoFunction(m, x)

(***************************************************************************)
(* C13  Exclusive ownership: between operations every block of the free    *)
(* store that is in use holds a live object and is named by the pointer of *)
(* exactly one non-empty live Function.                                    *)
(***************************************************************************)
\* the live non-empty Functions whose pointer names block p
OwnersOf(p) ==
  {x \in Fns : alive[x] /\ vptr_[x] # NULL /\ is_ptr_[x] /\ AsPtr(Mach, x) = p}

C13_ExclusiveOwnership ==
  \A p \in Addrs :
    heap[p].st # "free" =>
      /\ heap[p].st = "obj"
      /\ Cardinality(OwnersOf(p)) = 1

\* a move construction or a swap has just handed a block to another Function
C13_Witness ==
  /\ last.op \in {"Function(&&)", "swap", "=(&&)"}
  /\ last.x # last.o
  /\ vptr_[last.x] # NULL /\ is_ptr_[last.x]
  /\ OwnersOf(AsPtr(Mach, last.x)) = {last.x}
  /\ storage_[last.o] \in {Ptr(AsPtr(Mach, last.x)), Ptr(0)}

(***************************************************************************)
(* C14  Representation invariant, between operations: a non-empty Function *)
(* with is_ptr_ false has a live object of its table's type in storage_;   *)
(* one with is_ptr_ true has in storage_ a non-null pointer to a live      *)
(* object of its table's type in a block that is still allocated.          *)
(***************************************************************************)
C14_Representation ==
  \A x \in Fns :
    (alive[x] /\ vptr_[x] # NULL) =>
      IF is_ptr_[x]
        THEN /\ storage_[x].k = "ptr"
             /\ storage_[x].p \in Addrs
             /\ heap[storage_[x].p].st = "obj"
             /\ heap[storage_[x].p].t = vptr_[x]
        ELSE /\ storage_[x].k = "obj"
             /\ storage_[x].t = vptr_[x]

\* a swap has just exchanged an object on the free store with an inline
\* object of another type
C14_Witness ==
  /\ last.op = "swap" /\ last.x # last.o
  /\ vptr_[last.x] = "Multiplier" /\ ~is_ptr_[last.x]
  /\ vptr_[last.o] = "Big" /\ is_ptr_[last.o]

(***************************************************************************)
(* C15  No leak and no double destruction: once every Function has been    *)
(* destroyed, whatever operations ran before (failed ones included), no    *)
(* block of the free store is in use, and no destructor ran on a dead      *)
(* object, no object was left alive in a temporary or overwritten, and no  *)
(* block was released twice or by a deallocator other than its own.        *)
(***************************************************************************)
C15_AllReleasedOnce ==
  (\A x \in Fns : ~alive[x]) =>
    /\ \A p \in Addrs : heap[p].st = "free"
    /\ err = {}

(***************************************************************************)
(* C16  One allocator: every block of the free store owned by a Function,  *)
(* whether it comes from construct (construction, assignment, emplace) or  *)
(* from clone (copying), is obtained with std::malloc, and every block is  *)
(* released by the deallocator that matches its allocation.                *)
(***************************************************************************)
C16_MallocFreeOnly ==
  /\ \A p \in Addrs : heap[p].st # "free" => heap[p].by = "malloc"
  /\ "alloc_dealloc_mismatch" \notin err

(***************************************************************************)
(* C17  Construction on the free store that fails: when the allocation     *)
(* fails the constructor throws std::bad_alloc, also for a type whose own  *)
(* constructor would have thrown; when the wrapped type's constructor      *)
(* throws after the allocation, that exception propagates; either way no   *)
(* block stays allocated and no Function comes into existence.  Stated for *)
(* a Function variable being constructed and for the local Function of     *)
(* operator=(F&&) and emplace.                                             *)
(***************************************************************************)
\* the Functions a constructor can run on: variables not yet constructed and
\* the local of a member function
Unconstructed == {y \in Fns : ~alive[y]} \cup {Local}

C17_HeapConstructFailure ==
  \A x \in Unconstructed, T \in {S \in Types : ~IsInline(S)} :
    \A v \in Values(T), fail \in Fails :
      LET m == FunctionFrom(Mach, x, T, v, fail)
      IN  /\ (fail = "oom" \/ FreeAddrs(Mach) = {}) => m.exc = "bad_alloc"
          /\ (fail = "ctor" /\ CtorMayThrow(T) /\ FreeAddrs(Mach) # {}) => m.exc = "ctor"
          /\ m.exc # "none" =>
               /\ Untouched(m)
               /\ ~Bool(m, x) /\ m.storage_[x] = Raw

\* the construction of a Function variable has failed with std::bad_alloc
C17_Witness ==
  /\ last.op \in {"Function(F)", "Function(in_place)"}
  /\ last.exc = "bad_alloc"
  /\ ~alive[last.x] /\ vptr_[last.x] = NULL
  /\ Blocks(Mach) = Owned(Mach, Fns \ {last.x})

(***************************************************************************)
(* C18  Copy construction that fails: when clone (source on the free       *)
(* store) or copy (inline source) throws, the exception propagates, the    *)
(* source and the free store are as before, and no Function comes into     *)
(* existence.                                                              *)
(***************************************************************************)
C18_CopyConstructFailure ==
  \A x \in Unconstructed, o \in Fns :
    alive[o] =>
      \A fail \in Fails, u \in BOOLEAN :
        LET m == FunctionCopy(Mach, x, o, fail, u)
            T == vptr_[o]
        IN  /\ (T # NULL /\ fail = "ctor" /\ CtorMayThrow(T)
                  /\ (is_ptr_[o] => FreeAddrs(Mach) # {})) => m.exc = "ctor"
            /\ (T # NULL /\ is_ptr_[o] /\ (fail = "oom" \/ FreeAddrs(Mach) = {}))
                 => m.exc = "bad_alloc"
            /\ m.exc # "none" =>
                 /\ Untouched(m)
                 /\ ~Bool(m, x) /\ m.storage_[x] = Raw

\* the copy construction of a Function variable from a source on the free
\* store has thrown
C18_Witness ==
  /\ last.op = "Function(const&)" /\ last.exc # "none"
  /\ ~alive[last.x] /\ alive[last.o]
  /\ vptr_[last.o] = "Big" /\ is_ptr_[last.o]
  /\ Blocks(Mach) = {AsPtr(Mach, last.o)}

C20_EmplaceAsDirect ==
  \A x \in Fns, d \in Unconstructed :
    alive[x] =>
      \A T \in InPlaceTypes : \A us \in ArgLists(T) :
        LET e == emplace(Mach, x, T, us, "none")
            n == FunctionFrom(Mach, d, T, CtorValue(T, us), "none")
        IN  (e.exc = "none" /\ n.exc = "none") =>
              /\ Bool(e, x) /\ Bool(n, d)
              /\ e.vptr_[x] = n.vptr_[d]
              /\ e.is_ptr_[x] = n.is_ptr_[d]
              /\ Wrapped(e, x) = Wrapped(n, d)
              /\ Results(e, x) = Results(n, d)
              /\ Results(e, x) = Direct(T, CtorValue(T, us))

\* an emplace has replaced what a Function held, and the other Function holds
\* an object of the same type that gives the same results
C20_Witness ==
  /\ last.op = "emplace" /\ last.exc = "none"
  /\ \E o \in Fns \ {last.x} :
       /\ alive[o]
       /\ vptr_[o] = vptr_[last.x]
       /\ vptr_[o] \in InPlaceTypes
       /\ Wrapped(Mach, o) = Wrapped(Mach, last.x)
       /\ Results(Mach, o) = Results(Mach, last.x)

(***************************************************************************)
(* C21  A default-constructed Function is empty, and in every reachable    *)
(* state operator bool is true exactly when the Function wraps a live      *)
(* object: a Function with a table has a live object of the table's type   *)
(* where its storage mode says, and a Function without a table has no live *)
(* object in its inline region and owns none of the live free-store        *)
(* objects.                                                                *)
(***************************************************************************)
C21_BoolIffWraps ==
  /\ \A x \in Fns : \A u \in BOOLEAN :
       ~alive[x] => ~Bool(FunctionDefault(Mach, x, u), x)
  /\ \A x \in Fns :
       alive[x] =>
         IF Bool(Mach, x)
           THEN IsA(Mach, Where(Mach, x), vptr_[x])
           ELSE /\ storage_[x].k # "obj"
                /\ Blocks(Mach) \subseteq Owned(Mach, {y \in Fns \ {x} : alive[y]})

\* a Function that was reset, or default-constructed, tests false next to one
\* that wraps a free-store object and tests true
C21_Witness ==
  /\ last.op \in {"reset", "Function()"}
  /\ alive[last.x] /\ ~Bool(Mach, last.x)
  /\ \E y \in Fns \ {last.x} : alive[y] /\ Bool(Mach, y) /\ is_ptr_[y]

(***************************************************************************)
(* C22  The storage mode is a function of the concrete type.  construct()  *)
(* stores a type inline exactly when its size does not exceed              *)
(* sizeof(Storage) and its alignment divides alignof(Storage), and in      *)
(* every reachable state the is_ptr_ of each non-empty Function is the     *)
(* negation of that condition for the type of its table.                   *)
(***************************************************************************)
C22_StorageModeByType ==
  /\ \A x \in Fns : \A T \in Types : \A v \in Values(T) :
       ~alive[x] =>
         LET m == FunctionFrom(Mach, x, T, v, "none")
         IN  m.exc = "none" =>
               (m.is_ptr_[x] <=>
                  ~(SizeOf[T] <= SizeofStorage /\ StorageAlign % AlignOf[T] = 0))
  /\ \A x \in Fns :
       (alive[x] /\ vptr_[x] # NULL) =>
         (is_ptr_[x] <=>
            ~(SizeOf[vptr_[x]] <= SizeofStorage
                /\ StorageAlign % AlignOf[vptr_[x]] = 0))

\* a swap or a move assignment between a Function on the free store and an
\* empty one has just returned
C22_Witness ==
  /\ last.op \in {"swap", "=(&&)"} /\ last.x # last.o
  /\ \E e \in {last.x, last.o} : \E f \in {last.x, last.o} \ {e} :
       /\ vptr_[e] # NULL /\ is_ptr_[e]
       /\ vptr_[f] = NULL /\ alive[f]

(***************************************************************************)
(* C23  The generic fallback of swap (both non-empty, and either both      *)
(* inline with different tables or one inline and one on the free store)   *)
(* never breaks a precondition on the way: every move entry constructs     *)
(* into a region with no live object from a live object of the table's     *)
(* type, every destroy entry acts on a live object of the table's type,    *)
(* the pointer is written into a region only after the object there was    *)
(* destroyed and is read while the region of its owner still holds it, and *)
(* the local temp holds no live object when swap returns.  The free store  *)
(* is not touched and the block keeps its address.                         *)
(***************************************************************************)
C23_FallbackStepsSound ==
  \A a \in Fns, b \in Fns :
    (/\ a # b /\ alive[a] /\ alive[b]
     /\ vptr_[a] # NULL /\ vptr_[b] # NULL
     /\ ~(vptr_[a] = vptr_[b] /\ ~is_ptr_[a] /\ ~is_ptr_[b])
     /\ ~(is_ptr_[a] /\ is_ptr_[b])) =>
      LET m == swap(Mach, a, b)
      IN  /\ m.err = err
          /\ LeftInLocals(m) = {}
          /\ m.storage_[Temp] = Raw
          /\ m.heap = heap
          /\ \A x \in {a, b} : \A y \in {a, b} \ {x} :
                /\ IsA(m, Where(m, x), vptr_[y])
                /\ is_ptr_[y] => (m.is_ptr_[x] /\ AsPtr(m, x) = AsPtr(Mach, y))
                /\ ~is_ptr_[y] => (~m.is_ptr_[x] /\ m.storage_[x].v = storage_[y].v)

\* two inline objects of different types have just been exchanged through
\* the temporary
C23_Witness ==
  /\ last.op = "swap" /\ last.x # last.o
  /\ vptr_[last.x] = "Multiplier" /\ vptr_[last.o] = "Adder"
  /\ ~is_ptr_[last.x] /\ ~is_ptr_[last.o]

(***************************************************************************)
(* C24  swap with exactly one side empty: the empty side receives the      *)
(* object, with the table and the storage mode of the full side, and the   *)
(* full side ends empty.  An object on the free store is handed over by    *)
(* its pointer, the free store unchanged; an inline object is              *)
(* move-constructed into the empty side and the original destroyed, once.  *)
(* a.swap(b) and b.swap(a) leave the same state.                           *)
(***************************************************************************)
C24_SwapWithEmpty ==
  \A e \in Fns, f \in Fns :
    (e # f /\ alive[e] /\ alive[f] /\ vptr_[e] = NULL /\ vptr_[f] # NULL) =>
      LET m == swap(Mach, e, f)
          T == vptr_[f]
      IN  /\ m.vptr_[e] = T /\ m.vptr_[f] = NULL
          /\ m.is_ptr_[e] = is_ptr_[f]
          /\ m.heap = heap
          /\ m.err = err /\ LeftInLocals(m) = {}
          /\ IF is_ptr_[f]
               THEN /\ m.storage_[e] = storage_[f]
                    /\ IsA(m, Blk(AsPtr(m, e)), T)
                    /\ m.storage_[f] = Ptr(0)
               ELSE /\ m.storage_[e] = Obj(T, storage_[f].v)
                    /\ m.storage_[f] = Raw
          /\ swap(Mach, f, e) = m

\* an empty Function has just received an inline object by swap, as the
\* receiver of the call or as its argument
C24_Witness ==
  /\ last.op = "swap" /\ last.x # last.o
  /\ \E e \in {last.x, last.o} : \E f \in {last.x, last.o} \ {e} :
       /\ vptr_[e] # NULL /\ ~is_ptr_[e] /\ storage_[e].k = "obj"
       /\ vptr_[f] = NULL /\ storage_[f] = Raw /\ alive[f]

(***************************************************************************)
(* C25  swap of two non-empty Functions that are both on the free store    *)
(* (same type or not) exchanges the two pointers and the two tables and    *)
(* nothing else: the free store is unchanged, so no object was             *)
(* constructed, moved, copied or destroyed and no block allocated or       *)
(* released, and each object stays at its address.                         *)
(***************************************************************************)
C25_SwapBothHeapFrame ==
  \A a \in Fns, b \in Fns :
    (/\ a # b /\ alive[a] /\ alive[b]
     /\ vptr_[a] # NULL /\ vptr_[b] # NULL
     /\ is_ptr_[a] /\ is_ptr_[b]) =>
      LET m == swap(Mach, a, b)
      IN  /\ m.heap = heap
          /\ AsPtr(m, a) = AsPtr(Mach, b) /\ AsPtr(m, b) = AsPtr(Mach, a)
          /\ IsA(m, Blk(AsPtr(m, a)), m.vptr_[a])
          /\ IsA(m, Blk(AsPtr(m, b)), m.vptr_[b])
          /\ LeftInLocals(m) = {}
          /\ m = [Mach EXCEPT !.storage_[a] = storage_[b],
                              !.storage_[b] = storage_[a],
                              !.vptr_[a] = vptr_[b],
                              !.vptr_[b] = vptr_[a]]

\* two Functions on the free store, of different types, have just been
\* swapped
C25_Witness ==
  /\ last.op = "swap" /\ last.x # last.o
  /\ is_ptr_[last.x] /\ is_ptr_[last.o]
  /\ vptr_[last.x] = "RandMin" /\ vptr_[last.o] = "Big"
  /\ AsPtr(Mach, last.x) # AsPtr(Mach, last.o)

(***************************************************************************)
(* C26  The swap entry of a table, on two live objects of its type.  For a *)
(* type without a non-throwing swap it runs, in this order: move-construct *)
(* temp from rhs, destroy rhs, move-construct lhs into rhs's place,        *)
(* destroy lhs, move-construct temp into lhs's place, destroy temp.  After *)
(* each of the six steps at most one of the two places is without a live   *)
(* object and no step has acted on a dead object or constructed over a     *)
(* live one; on return both places hold live objects of the type with the  *)
(* values exchanged and temp holds none.                                   *)
(***************************************************************************)
\* the machine states after each statement of the else branch (lines 86-93)
VtSwapSteps(m, T, self, other) ==
  LET m1 == VtMove(m, T, Inl(VTemp), other)
      m2 == VtDestroy(m1, T, other)
      m3 == VtMove(m2, T, other, self)
      m4 == VtDestroy(m3, T, self)
      m5 == VtMove(m4, T, self, Inl(VTemp))
      m6 == VtDestroy(m5, T, Inl(VTemp))
  IN  <<m1, m2, m3, m4, m5, m6>>

C26_SwapInPlaceSteps ==
  \A a \in Fns, b \in Fns :
    (/\ a # b /\ alive[a] /\ alive[b]
     /\ vptr_[a] # NULL /\ vptr_[a] = vptr_[b]
     /\ ~is_ptr_[a] /\ ~is_ptr_[b]) =>
      LET T  == vptr_[a]
          va == storage_[a].v
          vb == storage_[b].v
          m  == VtSwap(Mach, T, Inl(a), Inl(b))
          s  == VtSwapSteps(Mach, T, Inl(a), Inl(b))
          Dead(i) == {x \in {a, b} : ~IsA(s[i], Inl(x), T)}
      IN  /\ m.err = err
          /\ m.storage_[a] = Obj(T, vb) /\ m.storage_[b] = Obj(T, va)
          /\ m.storage_[VTemp] = Raw
          /\ m.heap = heap
          /\ ~NothrowSwappable(T) =>
               /\ \A i \in 1 .. 6 :
                    /\ s[i].err = err
                    /\ Cardinality(Dead(i)) <= 1
               /\ s[1].storage_[VTemp] = Obj(T, vb) /\ Dead(1) = {}
               /\ Dead(2) = {b}
               /\ s[3].storage_[b] = Obj(T, va) /\ Dead(3) = {}
               /\ Dead(4) = {a}
               /\ s[5].storage_[a] = Obj(T, vb) /\ Dead(5) = {}
               /\ s[5].storage_[VTemp].k = "obj"
               /\ s[6] = m

\* two inline closures of the same type with different captures have just
\* been swapped
C26_Witness ==
  /\ last.op = "swap" /\ last.x # last.o
  /\ vptr_[last.x] = "Adder" /\ vptr_[last.o] = "Adder"
  /\ storage_[last.x].v # storage_[last.o].v

(***************************************************************************)
(* C27  Move construction from a source on the free store takes the        *)
(* pointer: the new Function holds the same block under the same table,    *)
(* the source is left empty, the free store is unchanged (no allocation,   *)
(* no object constructed or destroyed), the new Function is the only owner *)
(* of the block, and the block is released once, by the destruction of the *)
(* new Function and not by that of the source, in whichever order the two  *)
(* are destroyed.                                                          *)
(***************************************************************************)
C27_MoveFromHeapSteals ==
  \A d \in Fns, c \in Fns : \A u \in BOOLEAN :
    (~alive[d] /\ alive[c] /\ vptr_[c] # NULL /\ is_ptr_[c]) =>
      LET p  == AsPtr(Mach, c)
          m  == FunctionMove(Mach, d, c, u)
          dc == FunctionDtor(FunctionDtor(m, d), c)
          cd == FunctionDtor(FunctionDtor(m, c), d)
          Twice == {"double_free", "destroy_of_dead_object", "free_of_live_object"}
      IN  /\ m.vptr_[d] = vptr_[c] /\ m.is_ptr_[d] /\ AsPtr(m, d) = p
          /\ m.vptr_[c] = NULL
          /\ m.heap = heap /\ IsA(m, Blk(p), vptr_[c])
          /\ m.err = err
          /\ {y \in Fns : m.vptr_[y] # NULL /\ m.is_ptr_[y] /\ AsPtr(m, y) = p} = {d}
          /\ FunctionDtor(m, c).heap = heap
          /\ FunctionDtor(m, d).heap = [heap EXCEPT ![p] = FreeBlock]
          /\ dc.heap = [heap EXCEPT ![p] = FreeBlock]
          /\ cd.heap = [heap EXCEPT ![p] = FreeBlock]
          /\ dc.err \cap Twice = {} /\ cd.err \cap Twice = {}

\* a Function has just been move-constructed from one on the free store,
\* whose storage still holds the pointer it gave away
C27_Witness ==
  /\ last.op = "Function(&&)"
  /\ vptr_[last.x] # NULL /\ is_ptr_[last.x]
  /\ alive[last.o] /\ vptr_[last.o] = NULL
  /\ storage_[last.o] = storage_[last.x]

C29_CopyConstruct ==
  \A d \in Fns, c \in Fns : \A u \in BOOLEAN :
    (~alive[d] /\ alive[c]) =>
      LET m == FunctionCopy(Mach, d, c, "none", u)
          T == vptr_[c]
          q == AsPtr(m, d)
      IN  m.exc = "none" =>
            /\ Bool(m, d) <=> Bool(Mach, c)
            /\ \A y \in Fns \ {d} :
                  /\ m.vptr_[y] = vptr_[y]
                  /\ m.is_ptr_[y] = is_ptr_[y]
                  /\ m.storage_[y] = storage_[y]
            /\ \A p \in Blocks(Mach) : m.heap[p] = heap[p]
            /\ m.err = err /\ LeftInLocals(m) = {}
            /\ Bool(Mach, c) =>
                  /\ m.vptr_[d] = T
                  /\ m.is_ptr_[d] = is_ptr_[c]
                  /\ IF is_ptr_[c]
                       THEN /\ q \in Addrs /\ heap[q].st = "free"
                            /\ q # AsPtr(Mach, c)
                            /\ Blocks(m) = Blocks(Mach) \cup {q}
                            /\ IsA(m, Blk(q), T)
                            /\ m.heap[q].v = heap[AsPtr(Mach, c)].v
                       ELSE /\ m.storage_[d] = Obj(T, storage_[c].v)
                            /\ m.heap = heap
            /\ ~Bool(Mach, c) => m.heap = heap

\* an inline Multiplier with two factors has just been copy-constructed
C29_Witness ==
  /\ last.op = "Function(const&)" /\ last.exc = "none"
  /\ alive[last.x] /\ alive[last.o]
  /\ storage_[last.x] = Obj("Multiplier", <<2, 3>>)
  /\ storage_[last.o] = storage_[last.x]

(***************************************************************************)
(* C30  One table per concrete type: in every reachable state two          *)
(* non-empty Functions record the same table pointer exactly when they     *)
(* wrap objects of the same type, so the same-table test of swap           *)
(* (vptr_ == other.vptr_ with both inline) is taken exactly for inline     *)
(* operands of the same type.                                              *)
(***************************************************************************)
C30_OneTablePerType ==
  \A a \in Fns, b \in Fns :
    (alive[a] /\ alive[b] /\ vptr_[a] # NULL /\ vptr_[b] # NULL) =>
      /\ (vptr_[a] = vptr_[b]) <=> (Wrapped(Mach, a).t = Wrapped(Mach, b).t)
      /\ (vptr_[a] = vptr_[b] /\ ~is_ptr_[a] /\ ~is_ptr_[b])
           <=> (/\ Wrapped(Mach, a).t = Wrapped(Mach, b).t
                /\ ~is_ptr_[a] /\ ~is_ptr_[b])

(***************************************************************************)
(* C31  is_ptr_ and the bytes of storage_ mean nothing in an empty         *)
(* Function: from every reachable state, replacing the is_ptr_ and the     *)
(* storage_ of an empty Function by any flag and any stale content (raw    *)
(* bytes, a null pointer, the address of any block), or changing the       *)
(* indeterminate is_ptr_ a constructor leaves, changes nothing in what any *)
(* public operation returns, throws, or leaves behind, apart from the      *)
(* is_ptr_ and storage_ of the Functions that are then empty.              *)
(***************************************************************************)
\* what an empty Function can have in storage_
Stale == {Raw} \cup {Ptr(p) : p \in 0 .. MaxHeap}

\* the machine states that differ from m in the is_ptr_ and storage_ of one
\* empty Function among the operands X of an operation, and m itself
Variants(m, X) ==
  {m} \cup
  {[m EXCEPT !.is_ptr_[e] = b, !.storage_[e] = s] :
     e \in {y \in X \cap Fns : alive[y] /\ m.vptr_[y] = NULL}, b \in BOOLEAN, s \in Stale}

\* the outcome of an operation, leaving out is_ptr_ and storage_ of the empty
\* Functions
Outcome(m) ==
  [vptr_    |-> [x \in Fns |-> m.vptr_[x]],
   is_ptr_  |-> [x \in Fns |-> m.vptr_[x] # NULL /\ m.is_ptr_[x]],
   storage_ |-> [x \in Fns |-> IF m.vptr_[x] # NULL THEN m.storage_[x] ELSE Raw],
   heap     |-> m.heap,
   err      |-> m.err,
   locals   |-> {s \in {Local, Temp, VTemp} : m.storage_[s].k = "obj"},
   exc      |-> m.exc,
   res      |-> m.res]

C31_EmptyStateIrrelevant ==
    /\ \A x \in Fns, o \in Fns :
         (alive[x] /\ alive[o]) =>
           /\ LET r == Outcome(swap(Mach, x, o))
              IN  \A V \in Variants(Mach, {x, o}) : Outcome(swap(V, x, o)) = r
           /\ LET r == Outcome(AssignMove(Mach, x, o))
              IN  \A V \in Variants(Mach, {x, o}) : Outcome(AssignMove(V, x, o)) = r
           /\ \A fail \in FailsOfCopy(o) :
                LET r == Outcome(AssignCopy(Mach, x, o, fail, FALSE))
                IN  \A V \in Variants(Mach, {x, o}) : \A u \in BOOLEAN :
                      Outcome(AssignCopy(V, x, o, fail, u)) = r
    /\ \A x \in Fns, o \in Fns :
         (~alive[x] /\ alive[o]) =>
           /\ LET r == Outcome(FunctionMove(Mach, x, o, FALSE))
              IN  \A V \in Variants(Mach, {x, o}) : \A u \in BOOLEAN :
                    Outcome(FunctionMove(V, x, o, u)) = r
           /\ \A fail \in FailsOfCopy(o) :
                LET r == Outcome(FunctionCopy(Mach, x, o, fail, FALSE))
                IN  \A V \in Variants(Mach, {x, o}) : \A u \in BOOLEAN :
                      Outcome(FunctionCopy(V, x, o, fail, u)) = r
    /\ \A x \in Fns :
         alive[x] =>
           /\ \A V \in Variants(Mach, {x}) : Bool(V, x) = Bool(Mach, x)
           /\ LET r == Outcome(reset(Mach, x))
              IN  \A V \in Variants(Mach, {x}) : Outcome(reset(V, x)) = r
           /\ LET r == Outcome(FunctionDtor(Mach, x))
              IN  \A V \in Variants(Mach, {x}) : Outcome(FunctionDtor(V, x)) = r
           /\ \A T \in Types : \A v \in Values(T), fail \in FailsOf(T) :
                LET r == Outcome(AssignFrom(Mach, x, T, v, fail))
                IN  \A V \in Variants(Mach, {x}) : Outcome(AssignFrom(V, x, T, v, fail)) = r
           /\ \A T \in InPlaceTypes : \A us \in ArgLists(T), fail \in FailsOf(T) :
                LET r == Outcome(emplace(Mach, x, T, us, fail))
                IN  \A V \in Variants(Mach, {x}) : Outcome(emplace(V, x, T, us, fail)) = r
           /\ Bool(Mach, x) =>
                \A a \in Args :
                  LET r == Outcome(call(Mach, x, a))
                  IN  \A V \in Variants(Mach, {x}) : Outcome(call(V, x, a)) = r
    /\ \A x \in Fns :
         ~alive[x] =>
           LET r == Outcome(FunctionDefault(Mach, x, FALSE))
           IN  \A V \in Variants(Mach, {x}) : \A u \in BOOLEAN :
                 Outcome(FunctionDefault(V, x, u)) = r

\* a copy assignment has just read an empty Function whose is_ptr_ is set and
\* whose storage_ still holds the address of a block it gave away
C31_Witness ==
  /\ last.op = "=(const&)" /\ last.x # last.o
  /\ vptr_[last.o] = NULL /\ is_ptr_[last.o]
  /\ storage_[last.o].k = "ptr" /\ storage_[last.o].p # 0
  /\ vptr_[last.x] = NULL

(***************************************************************************)
(* C32  The assertions of the code hold: in every reachable state, no      *)
(* as_ptr() call made so far (by the copy and move constructors, reset,    *)
(* the branches of swap, operator() or construct) found is_ptr_ false, and *)
(* no call of construct() found a table already set; and the same is true  *)
(* of every public operation that can be called next.                      *)
(***************************************************************************)
Asserts == {"as_ptr_assert", "construct_assert"}

C32_AssertionsHold ==
  /\ err \cap Asserts = {}
  /\ \A x \in Fns, o \in Fns :
       (alive[x] /\ alive[o]) =>
         /\ swap(Mach, x, o).err \cap Asserts = {}
         /\ \A fail \in FailsOfCopy(o), u \in Indeterminate(o) :
              AssignCopy(Mach, x, o, fail, u).err \cap Asserts = {}
  /\ \A x \in Fns, o \in Fns :
       (~alive[x] /\ alive[o]) =>
         \A u \in Indeterminate(o) :
           /\ FunctionMove(Mach, x, o, u).err \cap Asserts = {}
           /\ \A fail \in FailsOfCopy(o) :
                FunctionCopy(Mach, x, o, fail, u).err \cap Asserts = {}
  /\ \A x \in Fns : \A T \in Types : \A v \in Values(T), fail \in FailsOf(T) :
       IF alive[x]
         THEN AssignFrom(Mach, x, T, v, fail).err \cap Asserts = {}
         ELSE FunctionFrom(Mach, x, T, v, fail).err \cap Asserts = {}
  /\ \A x \in Fns :
       alive[x] =>
         /\ reset(Mach, x).err \cap Asserts = {}
         /\ \A T \in InPlaceTypes : \A us \in ArgLists(T), fail \in FailsOf(T) :
              emplace(Mach, x, T, us, fail).err \cap Asserts = {}
         /\ Bool(Mach, x) =>
              \A a \in Args : call(Mach, x, a).err \cap Asserts = {}

\* emplace has just given a Function an object on the free store:
\* construct() ran on the local g, then swap, then the destructor of g
C32_Witness ==
  /\ last.op = "emplace" /\ last.exc = "none"
  /\ vptr_[last.x] = "Big" /\ is_ptr_[last.x]
  /\ Blocks(Mach) = {AsPtr(Mach, last.x)}

(***************************************************************************)
(* C33  Only invocation needs a wrapped object.  From every reachable      *)
(* state, every other public operation with an empty operand (copy and     *)
(* move construction, the three assignments, emplace, reset, swap,         *)
(* destruction) runs without any precondition violation: no table entry is *)
(* called on a region without a live object of its type, which is what a   *)
(* call through a null table would be, and no assertion fails.  The        *)
(* release of a block obtained from clone by std::free is the one          *)
(* violation set aside here.  Invoking an empty Function fails the         *)
(* assertion of operator().                                                *)
(***************************************************************************)
NoNewViolation(m) ==
  /\ m.err \subseteq err \cup {"alloc_dealloc_mismatch"}
  /\ LeftInLocals(m) = {}

C33_OnlyInvokeNeedsObject ==
  /\ \A x \in Fns, o \in Fns :
       (alive[x] /\ alive[o] /\ (vptr_[x] = NULL \/ vptr_[o] = NULL)) =>
         /\ NoNewViolation(swap(Mach, x, o))
         /\ NoNewViolation(AssignMove(Mach, x, o))
         /\ \A fail \in FailsOfCopy(o), u \in Indeterminate(o) :
              NoNewViolation(AssignCopy(Mach, x, o, fail, u))
  /\ \A x \in Fns, o \in Fns :
       (~alive[x] /\ alive[o] /\ vptr_[o] = NULL) =>
         \A u \in BOOLEAN :
           /\ NoNewViolation(FunctionMove(Mach, x, o, u))
           /\ NoNewViolation(FunctionCopy(Mach, x, o, "none", u))
           /\ ~Bool(FunctionMove(Mach, x, o, u), x)
           /\ ~Bool(FunctionCopy(Mach, x, o, "none", u), x)
  /\ \A x \in Fns :
       (alive[x] /\ vptr_[x] = NULL) =>
         /\ ~Bool(Mach, x)
         /\ NoNewViolation(reset(Mach, x))
         /\ NoNewViolation(FunctionDtor(Mach, x))
         /\ \A T \in Types : \A v \in Values(T), fail \in FailsOf(T) :
              NoNewViolation(AssignFrom(Mach, x, T, v, fail))
         /\ \A T \in InPlaceTypes : \A us \in ArgLists(T), fail \in FailsOf(T) :
              NoNewViolation(emplace(Mach, x, T, us, fail))
         /\ \A a \in Args : "call_assert" \in call(Mach, x, a).err

\* an empty Function has just been move-assigned from another empty Function
C33_Witness ==
  /\ last.op = "=(&&)" /\ last.x # last.o
  /\ alive[last.x] /\ alive[last.o]
  /\ vptr_[last.x] = NULL /\ vptr_[last.o] = NULL

(***************************************************************************)
(* C34  The storage mode does not show through emptiness: whatever public  *)
(* operation is applied to a Function that wraps an inline object and to   *)
(* one that wraps an object on the free store, operator bool gives the     *)
(* same answers afterwards, for the Function and for the new or local      *)
(* Function the operation involves; in particular for the source of a move *)
(* construction.                                                           *)
(***************************************************************************)
\* operator bool of c and of Local in machine state m
Emptiness(m, c) == <<Bool(m, c), Bool(m, Local)>>

C34_EmptinessIgnoresMode ==
  \A c1 \in Fns, c2 \in Fns :
    (/\ alive[c1] /\ alive[c2]
     /\ vptr_[c1] # NULL /\ vptr_[c2] # NULL
     /\ ~is_ptr_[c1] /\ is_ptr_[c2]) =>
      /\ \A u \in BOOLEAN :
           Emptiness(FunctionMove(Mach, Local, c1, u), c1)
             = Emptiness(FunctionMove(Mach, Local, c2, u), c2)
      /\ \A u \in BOOLEAN :
           LET m1 == FunctionCopy(Mach, Local, c1, "none", u)
               m2 == FunctionCopy(Mach, Local, c2, "none", u)
           IN  (m1.exc = "none" /\ m2.exc = "none") =>
                 Emptiness(m1, c1) = Emptiness(m2, c2)
      /\ Emptiness(reset(Mach, c1), c1) = Emptiness(reset(Mach, c2), c2)
      /\ Emptiness(swap(Mach, c1, Local), c1) = Emptiness(swap(Mach, c2, Local), c2)
      /\ Emptiness(swap(Mach, Local, c1), c1) = Emptiness(swap(Mach, Local, c2), c2)
      /\ \A a \in Args :
           Emptiness(call(Mach, c1, a), c1) = Emptiness(call(Mach, c2, a), c2)

====
